---- MODULE Spec2Model ----
(***************************************************************************)
(* MessengerContext (src/context/MessengerContext.js): a per-conversation  *)
(* context that funnels every send-family call through one                 *)
(* DelayableJobQueue, whose beforeEach / after hooks toggle the typing     *)
(* indicators and sleep for the job's delay.                               *)
(*                                                                         *)
(* The client (messaging-api-messenger) is the environment: every call to  *)
(* it is recorded in `calls` and settles later, resolved or rejected.      *)
(* DelayableJobQueue and the base class Context are not part of the        *)
(* source file; they are modelled from the specification's section 4.1     *)
(* and 3.                                                                  *)
(***************************************************************************)
EXTENDS Integers, Sequences, FiniteSets, TLC

VARIABLES
  session,       \* this._session: <<>> (null) or <<[user |-> [id |-> ...]]>>
  messageDelay,  \* this._messageDelay (Context)
  queue,         \* this._jobQueue: the pending jobs, head first
  qstate,        \* the queue's position: "idle", "before", "action", "after"
  current,       \* the job being executed: <<>> or <<job>>
  inflight,      \* index in calls of the current job's client call (0: none)
  timer,         \* milliseconds left of the before hook's sleep(delay)
  elapsed,       \* milliseconds elapsed since that sleep started
  calls,         \* every call made to the client, in invocation order
  deferreds,     \* every promise the context created, in creation order
  warnings,      \* every warning(false, ...) issued, in order
  api,           \* every public method call made so far, in order
  chosen,        \* the generated send method this caller uses
  typings,       \* the typing(ms) invocations, each with its position
  other          \* a second MessengerContext: its fields, calls and promises

vars == <<session, messageDelay, queue, qstate, current, inflight, timer,
          elapsed, calls, deferreds, warnings, api, chosen,
          typings, other>>

-----------------------------------------------------------------------------
(* Bounds of the model *)

\* public method calls made in the queue specification
MaxCalls == 2
\* public method calls made in the API specification
MaxApiCalls == 1

(* Program constants *)

DefaultMessageDelay == 1000

sendMethods ==
  << "sendAttachment", "sendImage", "sendAudio", "sendVideo", "sendFile",
     "sendQuickReplies", "sendGenericTemplate", "sendButtonTemplate",
     "sendListTemplate", "sendReceiptTemplate",
     "sendAirlineBoardingPassTemplate", "sendAirlineCheckinTemplate",
     "sendAirlineItineraryTemplate", "sendAirlineFlightUpdateTemplate" >>

(* Inputs *)

Undefined == "undefined"
Texts == {"hi"}
OptionValues == {Undefined, "{options}"}
ArgLists == {<<>>, <<"a1", "a2">>}
UserIds == {"u1"}

Range(f) == {f[i] : i \in DOMAIN f}

-----------------------------------------------------------------------------
(* Values *)

NoValue == [kind |-> "undefined", of |-> 0]
\* the value (error) the client resolves (rejects) its i-th call with
ValueOf(i) == [kind |-> "value", of |-> i]
ErrorOf(i) == [kind |-> "error", of |-> i]

HasSession == session # <<>>
UserId == session[1].user.id

\* JavaScript truthiness of an optional argument
Truthy(x) == x \notin {Undefined, "null", ""}

\* client calls made by the caller directly, not for a job
User == [by |-> "user", job |-> 0, delay |-> 0]
\* client calls made for a job: by its before hook, the queue, its after hook
For(by, job) == [by |-> by, job |-> job.onSuccess.deferred, delay |-> job.delay]

\* The mutable state as one record, so that methods are functions on it.
\* origin says on whose behalf client calls are being made.
St(origin) ==
  [ queue |-> queue, qstate |-> qstate, current |-> current,
    inflight |-> inflight, timer |-> timer, elapsed |-> elapsed,
    calls |-> calls, deferreds |-> deferreds, warnings |-> warnings,
    messageDelay |-> messageDelay, origin |-> origin ]

Commit(s) ==
  /\ queue' = s.queue
  /\ qstate' = s.qstate
  /\ current' = s.current
  /\ inflight' = s.inflight
  /\ timer' = s.timer
  /\ elapsed' = s.elapsed
  /\ calls' = s.calls
  /\ deferreds' = s.deferreds
  /\ warnings' = s.warnings
  /\ messageDelay' = s.messageDelay

-----------------------------------------------------------------------------
(* The environment: the client, warning(), sleep() and promises *)

\* this._client[op](...args): the call is recorded and is pending
clientCall(s, op, args) ==
  [s EXCEPT !.calls = Append(@, [op |-> op, args |-> args,
                                 status |-> "pending",
                                 by |-> s.origin.by, job |-> s.origin.job,
                                 delay |-> s.origin.delay])]

\* warning(false, message)
warning(s, message) == [s EXCEPT !.warnings = Append(@, message)]

\* Promise.resolve()
promiseResolve(s) ==
  [s EXCEPT !.deferreds = Append(@, [state |-> "resolved", value |-> NoValue,
                                     settles |-> 1])]

\* new Promise((resolve, reject) => ...): a pending promise
newPromise(s) ==
  [s EXCEPT !.deferreds = Append(@, [state |-> "pending", value |-> NoValue,
                                     settles |-> 0])]

\* resolve(v) / reject(v) of the promise d: only the first call settles it
settle(s, cb, v) ==
  LET d == cb.deferred IN
  [s EXCEPT !.deferreds[d] =
     [@ EXCEPT !.state = IF @ = "pending" THEN cb.fn ELSE @,
               !.value = IF s.deferreds[d].state = "pending" THEN v ELSE @,
               !.settles = @ + 1]]

\* sleep(ms)
sleep(s, ms) == [s EXCEPT !.timer = ms, !.elapsed = 0]

-----------------------------------------------------------------------------
(* MessengerContext: the indicator methods and the queue hooks *)

NoSessionWarning(method) == [method |-> method, kind |-> "no-session"]
DeprecatedWarning(method) == [method |-> method, kind |-> "deprecated"]

typingOn(s) ==
  IF ~HasSession
    THEN promiseResolve(warning(s, NoSessionWarning("typingOn")))
    ELSE clientCall(s, "typingOn", <<UserId>>)

\* typingOff without its warning on a context without session
typingOff_silent(s) ==
  IF ~HasSession
    THEN promiseResolve(s)
    ELSE clientCall(s, "typingOff", <<UserId>>)

typingOff(s) ==
  IF ~HasSession
    THEN promiseResolve(warning(s, NoSessionWarning("typingOff")))
    ELSE clientCall(s, "typingOff", <<UserId>>)

\* ({ delay, showIndicators = true }): the default applies to a job that
\* has no such field
ShowIndicators(job) ==
  IF "showIndicators" \in DOMAIN job THEN job.showIndicators ELSE TRUE

\* a beforeEach hook that sleeps only when it shows the indicator
beforeEachHook_indicatorsOnly(s, job) ==
  IF ShowIndicators(job) THEN sleep(typingOn(s), job.delay) ELSE sleep(s, 0)

\* a beforeEach hook that sleeps for the context's default delay
beforeEachHook_defaultDelay(s, job) ==
  LET s1 == IF ShowIndicators(job) THEN typingOn(s) ELSE s
  IN  sleep(s1, s.messageDelay)

\* the beforeEach hook up to its await: typingOn is started, not awaited
beforeEachHook(s, job) ==
  LET s1 == IF ShowIndicators(job) THEN typingOn(s) ELSE s
  IN  sleep(s1, job.delay)

\* a hook that starts the sleep and does not await it
beforeEachSettled_nowait(s) == TRUE

\* a beforeEach hook that awaits its typingOn and fails when it rejects
beforeEachSettled_awaitIndicator(s) ==
  /\ s.timer = 0
  /\ \A i \in DOMAIN s.calls :
       (s.calls[i].by = "beforeEach"
          /\ s.calls[i].job = s.current[1].onSuccess.deferred)
         => s.calls[i].status = "resolved"

\* the beforeEach hook's promise resolves when its sleep has resolved
beforeEachSettled(s) == s.timer = 0

\* an after hook with the test of showIndicators inverted
afterHook_inverted(s, job) ==
  IF ~ShowIndicators(job) THEN typingOff(s) ELSE s

\* the after hook: typingOff is started, not awaited
afterHook(s, job) ==
  IF ShowIndicators(job) THEN typingOff(s) ELSE s

\* the after hook awaits nothing: its promise resolves at once
afterSettled(s) == TRUE

-----------------------------------------------------------------------------
(* DelayableJobQueue, from the specification's section 4.1 *)

\* pop the head job and invoke the before hook
drain(s) ==
  LET job == Head(s.queue)
      s1 == [s EXCEPT !.queue = Tail(@), !.current = <<job>>,
                      !.qstate = "before",
                      !.origin = For("beforeEach", job)]
  IN  beforeEachHook(s1, job)

\* enqueue(job): append; if the queue was idle, start draining immediately
enqueue(s, job) ==
  LET s1 == [s EXCEPT !.queue = Append(@, job)]
  IN  IF s.qstate = "idle" THEN drain(s1) ELSE s1

\* the before hook has been awaited: invoke job.instance[job.method](...args)
invoke(s) ==
  LET job == s.current[1]
      s1 == clientCall([s EXCEPT !.origin = For("queue", job)],
                       job.method, job.args)
  IN  [s1 EXCEPT !.qstate = "action", !.inflight = Len(s1.calls)]

\* the action has settled: invoke the after hook
after(s) ==
  LET job == s.current[1]
      s1 == afterHook([s EXCEPT !.origin = For("after", job)], job)
  IN  [s1 EXCEPT !.qstate = "after"]

\* the after hook has been awaited: route the action's result to onSuccess
\* or onError, then proceed to the next job, or become idle
route(s) ==
  LET job == s.current[1]
      c == s.calls[s.inflight]
      s1 == IF c.status = "resolved"
              THEN settle(s, job.onSuccess, ValueOf(s.inflight))
              ELSE settle(s, job.onError, ErrorOf(s.inflight))
      s2 == [s1 EXCEPT !.current = <<>>, !.inflight = 0, !.qstate = "idle"]
  IN  IF s2.queue # <<>> THEN drain(s2) ELSE s2

-----------------------------------------------------------------------------
(* MessengerContext: the send family *)

\* a job whose client operation is also invoked at once, outside the queue
_enqueue_eager(s, job) ==
  LET s1 == newPromise(s)
      d == Len(s1.deferreds)
      j == job @@ [onSuccess |-> [deferred |-> d, fn |-> "resolved"],
                   onError |-> [deferred |-> d, fn |-> "rejected"]]
  IN  enqueue(clientCall([s1 EXCEPT !.origin = For("queue", j)],
                         j.method, j.args), j)

\* a job whose rejection resolves its promise
_enqueue_swallow(s, job) ==
  LET s1 == newPromise(s)
      d == Len(s1.deferreds)
  IN  enqueue(s1, job @@ [onSuccess |-> [deferred |-> d, fn |-> "resolved"],
                          onError |-> [deferred |-> d, fn |-> "resolved"]])

\* a promise is returned and the job is never handed to the queue
_enqueue_dropped(s, job) == newPromise(s)

_enqueue(s, job) ==
  LET s1 == newPromise(s)
      d == Len(s1.deferreds)
  IN  enqueue(s1, job @@ [onSuccess |-> [deferred |-> d, fn |-> "resolved"],
                          onError |-> [deferred |-> d, fn |-> "rejected"]])

\* sendText with the delay fixed at construction time
sendText_fixedDelay(s, text, options) ==
  IF ~HasSession
    THEN promiseResolve(warning(s, NoSessionWarning("sendText")))
    ELSE _enqueue(s, [instance |-> "client", method |-> "sendText",
                      args |-> IF Truthy(options)
                                 THEN <<UserId, text, options>>
                                 ELSE <<UserId, text>>,
                      delay |-> DefaultMessageDelay, showIndicators |-> TRUE])

sendText(s, text, options) ==
  IF ~HasSession
    THEN promiseResolve(warning(s, NoSessionWarning("sendText")))
    ELSE _enqueue(s, [instance |-> "client", method |-> "sendText",
                      args |-> IF Truthy(options)
                                 THEN <<UserId, text, options>>
                                 ELSE <<UserId, text>>,
                      delay |-> s.messageDelay, showIndicators |-> TRUE])

sendTextWithDelay(s, delay, text) ==
  IF ~HasSession
    THEN promiseResolve(warning(s, NoSessionWarning("sendTextWithDelay")))
    ELSE _enqueue(s, [instance |-> "client", method |-> "sendText",
                      args |-> <<UserId, text>>,
                      delay |-> delay, showIndicators |-> TRUE])

WithDelay(method) == method \o "WithDelay"

\* every generated method closing over the last name of the list
generatedSend_lastName(s, method, args) ==
  IF ~HasSession
    THEN promiseResolve(warning(s, NoSessionWarning(method)))
    ELSE _enqueue(s, [instance |-> "client",
                      method |-> sendMethods[Len(sendMethods)],
                      args |-> <<UserId>> \o args,
                      delay |-> s.messageDelay, showIndicators |-> TRUE])

\* MessengerContext.prototype[method]
generatedSend(s, method, args) ==
  IF ~HasSession
    THEN promiseResolve(warning(s, NoSessionWarning(method)))
    ELSE _enqueue(s, [instance |-> "client", method |-> method,
                      args |-> <<UserId>> \o args,
                      delay |-> s.messageDelay, showIndicators |-> TRUE])

\* a WithDelay variant that ignores its delay argument
generatedSendWithDelay_defaultDelay(s, method, delay, rest) ==
  LET s1 == warning(s, DeprecatedWarning(WithDelay(method)))
  IN  IF ~HasSession
        THEN promiseResolve(warning(s1, NoSessionWarning(WithDelay(method))))
        ELSE _enqueue(s1, [instance |-> "client", method |-> method,
                           args |-> <<UserId>> \o rest,
                           delay |-> s.messageDelay, showIndicators |-> TRUE])

\* MessengerContext.prototype[`${method}WithDelay`]
generatedSendWithDelay(s, method, delay, rest) ==
  LET s1 == warning(s, DeprecatedWarning(WithDelay(method)))
  IN  IF ~HasSession
        THEN promiseResolve(warning(s1, NoSessionWarning(WithDelay(method))))
        ELSE _enqueue(s1, [instance |-> "client", method |-> method,
                           args |-> <<UserId>> \o rest,
                           delay |-> delay, showIndicators |-> TRUE])

\* Context.setMessageDelay
setMessageDelay(s, ms) == [s EXCEPT !.messageDelay = ms]

-----------------------------------------------------------------------------
(* The state after construction *)

\* a context as its constructor leaves it
Constructed ==
  [messageDelay |-> DefaultMessageDelay, queue |-> <<>>, qstate |-> "idle",
   current |-> <<>>, inflight |-> 0, timer |-> 0, elapsed |-> 0,
   calls |-> <<>>, deferreds |-> <<>>, warnings |-> <<>>, api |-> <<>>]

Start ==
  /\ session \in {<<>>} \cup {<<[user |-> [id |-> u]]>> : u \in UserIds}
  /\ messageDelay = DefaultMessageDelay
  /\ queue = <<>>
  /\ qstate = "idle"
  /\ current = <<>>
  /\ inflight = 0
  /\ timer = 0
  /\ elapsed = 0
  /\ calls = <<>>
  /\ deferreds = <<>>
  /\ warnings = <<>>
  /\ api = <<>>
  /\ typings = <<>>
  /\ other = Constructed

\* the generated send method the queue specification's caller uses
QueueMethods == {sendMethods[2]}

Init == Start /\ chosen \in QueueMethods

InitApi == Start /\ chosen \in Range(sendMethods)

\* One more public method call, of at most n. The log keeps the method,
\* its leading delay argument (-1: it takes none), its other arguments and
\* the promise the call returned (0: the client's own).
Called(n, method, delay, args) ==
  /\ Len(api) < n
  /\ api' = Append(api, [method |-> method, delay |-> delay, args |-> args,
                         promise |-> IF Len(deferreds') > Len(deferreds)
                                       THEN Len(deferreds') ELSE 0])
  /\ UNCHANGED <<session, chosen, typings, other>>

(* The public methods, called by the user at any moment *)

SendText(n, optionValues) ==
  \E text \in Texts, options \in optionValues :
    /\ Commit(sendText(St(User), text, options))
    /\ Called(n, "sendText", -1, <<text, options>>)

SendTextWithDelay(n, delays) ==
  \E delay \in delays, text \in Texts :
    /\ Commit(sendTextWithDelay(St(User), delay, text))
    /\ Called(n, "sendTextWithDelay", delay, <<text>>)

GeneratedSend(n, argLists) ==
  \E method \in {chosen}, args \in argLists :
    /\ Commit(generatedSend(St(User), method, args))
    /\ Called(n, method, -1, args)

GeneratedSendWithDelay(n, delays, argLists) ==
  \E method \in {chosen}, delay \in delays, rest \in argLists :
    /\ Commit(generatedSendWithDelay(St(User), method, delay, rest))
    /\ Called(n, WithDelay(method), delay, rest)

TypingOn(n) ==
  /\ Commit(typingOn(St(User)))
  /\ Called(n, "typingOn", -1, <<>>)

TypingOff(n) ==
  /\ Commit(typingOff(St(User)))
  /\ Called(n, "typingOff", -1, <<>>)

SetMessageDelay(values) ==
  \E ms \in values :
    /\ ms # messageDelay
    /\ Commit(setMessageDelay(St(User), ms))
    /\ UNCHANGED <<session, api, chosen, typings, other>>

\* the jobs a caller hands to _enqueue itself: a send without indicators
QuietDelay == 500
QuietJobs ==
  {[instance |-> "client", method |-> "sendText", args |-> <<u, text>>,
    delay |-> QuietDelay, showIndicators |-> FALSE] :
     u \in UserIds, text \in Texts}

\* this._enqueue(job), called with a job of the caller's own
Enqueue(n, jobs) ==
  \E job \in jobs :
    /\ Commit(_enqueue(St(User), job))
    /\ Called(n, "_enqueue", job.delay, job.args)

(* typing(ms), an async function: the call runs it up to its first await,
   and it resumes when the promise it awaits has settled *)

\* client calls made by the k-th typing(ms) invocation
ByTyping(k, ms) == [by |-> "typing", job |-> k, delay |-> ms]

\* the promise typingOn() or typingOff() has just returned: the client
\* call's (its index in calls), or 0 for Promise.resolve()
Awaited(s) == IF HasSession THEN Len(s.calls) ELSE 0

awaitResolved(s, t) ==
  IF t.awaits = 0 THEN TRUE ELSE s.calls[t.awaits].status = "resolved"
awaitRejected(s, t) ==
  IF t.awaits = 0 THEN FALSE ELSE s.calls[t.awaits].status = "rejected"

\* a typing that does not wait for its sleep
typingSlept_nowait(t) == TRUE

\* await sleep(ms) is over
typingSlept(t) == t.timer = 0

\* the values of ms
TypingTimes == {300}

Typing(n, mss) ==
  \E ms \in mss :
    LET s == typingOn(St(ByTyping(Len(typings) + 1, ms))) IN
      /\ Len(api) < n
      /\ Commit(s)
      /\ typings' = Append(typings, [ms |-> ms, pc |-> "typingOn",
                                     awaits |-> Awaited(s),
                                     timer |-> 0, elapsed |-> 0])
      /\ api' = Append(api, [method |-> "typing", delay |-> -1,
                             args |-> <<>>, promise |-> 0])
      /\ UNCHANGED <<session, chosen, other>>

\* typing(ms) resumes after an await
TypingResume ==
  \E k \in DOMAIN typings :
    LET t == typings[k] IN
      \/ /\ t.pc = "typingOn"
         /\ awaitResolved(St(User), t)
         /\ typings' = [typings EXCEPT ![k] = [t EXCEPT !.pc = "sleep",
                                                        !.timer = t.ms,
                                                        !.elapsed = 0]]
         /\ UNCHANGED <<session, messageDelay, queue, qstate, current,
                        inflight, timer, elapsed, calls, deferreds, warnings,
                        api, chosen, other>>
      \/ /\ t.pc = "sleep"
         /\ typingSlept(t)
         /\ LET s == typingOff(St(ByTyping(k, t.ms))) IN
              /\ Commit(s)
              /\ typings' = [typings EXCEPT ![k] =
                               [t EXCEPT !.pc = "typingOff",
                                         !.awaits = Awaited(s)]]
         /\ UNCHANGED <<session, api, chosen, other>>
      \/ /\ t.pc \in {"typingOn", "typingOff"}
         /\ IF t.pc = "typingOff" THEN ~awaitResolved(St(User), t)
                                       => awaitRejected(St(User), t)
                                  ELSE awaitRejected(St(User), t)
         /\ typings' = [typings EXCEPT ![k] =
                          [t EXCEPT !.pc = IF awaitRejected(St(User), t)
                                             THEN "rejected" ELSE "resolved"]]
         /\ UNCHANGED <<session, messageDelay, queue, qstate, current,
                        inflight, timer, elapsed, calls, deferreds, warnings,
                        api, chosen, other>>

(* The environment's steps *)

\* the sleeps that are running: the before hook's of either context and
\* the typing(ms) invocations'
Sleeps ==
  ({timer, other.timer} \cup {typings[k].timer : k \in DOMAIN typings}) \ {0}

\* a sleep with ms left and e elapsed, dt later
Later(sl, dt) ==
  IF sl.timer > 0 THEN [sl EXCEPT !.timer = @ - dt, !.elapsed = @ + dt] ELSE sl

\* time passes until the first of the running sleeps is over
Tick ==
  /\ Sleeps # {}
  /\ LET dt == CHOOSE d \in Sleeps : \A e \in Sleeps : d <= e IN
       /\ timer' = Later([timer |-> timer, elapsed |-> elapsed], dt).timer
       /\ elapsed' = Later([timer |-> timer, elapsed |-> elapsed], dt).elapsed
       /\ typings' = [k \in DOMAIN typings |-> Later(typings[k], dt)]
       /\ other' = Later(other, dt)
  /\ UNCHANGED <<session, messageDelay, queue, qstate, current, inflight,
                 calls, deferreds, warnings, api, chosen>>

\* the client settles one of its pending calls
ClientSettle(outcomes) ==
  \E i \in DOMAIN calls, outcome \in outcomes :
    /\ calls[i].status = "pending"
    /\ calls' = [calls EXCEPT ![i].status = outcome]
    /\ UNCHANGED <<session, messageDelay, queue, qstate, current, inflight,
                   timer, elapsed, deferreds, warnings, api, chosen,
                   typings, other>>

(* The queue's steps *)

QInvoke ==
  /\ qstate = "before"
  /\ beforeEachSettled(St(User))
  /\ Commit(invoke(St(User)))
  /\ UNCHANGED <<session, api, chosen, typings, other>>

QAfter ==
  /\ qstate = "action"
  /\ calls[inflight].status # "pending"
  /\ Commit(after(St(User)))
  /\ UNCHANGED <<session, api, chosen, typings, other>>

QRoute ==
  /\ qstate = "after"
  /\ afterSettled(St(User))
  /\ Commit(route(St(User)))
  /\ UNCHANGED <<session, api, chosen, typings, other>>

Outcomes == {"resolved", "rejected"}

(* The second context: the same methods and queue steps on its own fields *)

StOther(origin) ==
  [ queue |-> other.queue, qstate |-> other.qstate,
    current |-> other.current, inflight |-> other.inflight,
    timer |-> other.timer, elapsed |-> other.elapsed,
    calls |-> other.calls, deferreds |-> other.deferreds,
    warnings |-> other.warnings, messageDelay |-> other.messageDelay,
    origin |-> origin ]

\* two contexts that share one job queue
CommitOther_sharedQueue(s, calledApi) ==
  /\ other' = [messageDelay |-> s.messageDelay, queue |-> s.queue,
               qstate |-> s.qstate, current |-> s.current,
               inflight |-> s.inflight, timer |-> s.timer,
               elapsed |-> s.elapsed, calls |-> s.calls,
               deferreds |-> s.deferreds, warnings |-> s.warnings,
               api |-> calledApi]
  /\ queue' = s.queue
  /\ UNCHANGED <<session, messageDelay, qstate, current, inflight,
                 timer, elapsed, calls, deferreds, warnings, api, chosen,
                 typings>>

\* the second context's fields are its own: its queue is the one its
\* constructor made
CommitOther(s, calledApi) ==
  /\ other' = [messageDelay |-> s.messageDelay, queue |-> s.queue,
               qstate |-> s.qstate, current |-> s.current,
               inflight |-> s.inflight, timer |-> s.timer,
               elapsed |-> s.elapsed, calls |-> s.calls,
               deferreds |-> s.deferreds, warnings |-> s.warnings,
               api |-> calledApi]
  /\ UNCHANGED <<session, messageDelay, queue, qstate, current, inflight,
                 timer, elapsed, calls, deferreds, warnings, api, chosen,
                 typings>>

OtherSendText(n) ==
  \E text \in Texts :
    LET s == sendText(StOther(User), text, Undefined) IN
      /\ Len(other.api) < n
      /\ CommitOther(s, Append(other.api,
            [method |-> "sendText", delay |-> -1, args |-> <<text, Undefined>>,
             promise |-> IF Len(s.deferreds) > Len(other.deferreds)
                           THEN Len(s.deferreds) ELSE 0]))

OtherClientSettle(outcomes) ==
  \E i \in DOMAIN other.calls, outcome \in outcomes :
    /\ other.calls[i].status = "pending"
    /\ other' = [other EXCEPT !.calls[i].status = outcome]
    /\ UNCHANGED <<session, messageDelay, queue, qstate, current, inflight,
                   timer, elapsed, calls, deferreds, warnings, api, chosen,
                   typings>>

OtherQInvoke ==
  /\ other.qstate = "before"
  /\ beforeEachSettled(StOther(User))
  /\ CommitOther(invoke(StOther(User)), other.api)

OtherQAfter ==
  /\ other.qstate = "action"
  /\ other.calls[other.inflight].status # "pending"
  /\ CommitOther(after(StOther(User)), other.api)

OtherQRoute ==
  /\ other.qstate = "after"
  /\ afterSettled(StOther(User))
  /\ CommitOther(route(StOther(User)), other.api)

OtherQueueStep(outcomes) ==
  OtherClientSettle(outcomes) \/ OtherQInvoke \/ OtherQAfter \/ OtherQRoute

QueueStep(outcomes) ==
  Tick \/ ClientSettle(outcomes) \/ QInvoke \/ QAfter \/ QRoute

\* The queue specification: send-family calls of different delays made at
\* any moment, against a client that resolves or rejects each call.
Next ==
  \/ SendText(MaxCalls, {Undefined})
  \/ SendTextWithDelay(MaxCalls, {0})
  \/ GeneratedSend(MaxCalls, {<<"a1">>})
  \/ QueueStep(Outcomes)

Spec == Init /\ [][Next]_vars

\* The API specification calls every method with every shape of arguments;
\* its client resolves every call (rejections are the queue specification's
\* subject).
NextApi ==
  \/ SendText(MaxApiCalls, OptionValues)
  \/ SendTextWithDelay(MaxApiCalls, {0})
  \/ GeneratedSend(MaxApiCalls, ArgLists)
  \/ GeneratedSendWithDelay(MaxApiCalls, {0}, ArgLists)
  \/ TypingOn(MaxApiCalls)
  \/ TypingOff(MaxApiCalls)
  \/ SetMessageDelay({500, DefaultMessageDelay})
  \/ QueueStep({"resolved"})

\* The event loop does not stop while a continuation is ready, a sleep is
\* running or a client call is unsettled.
FairSpec == Spec /\ WF_vars(QueueStep(Outcomes))

SpecApi == InitApi /\ [][NextApi]_vars

\* The job specification: jobs of the default delay, which changes between
\* the calls, and jobs without indicators.
MaxJobCalls == 2

NextJobs ==
  \/ SendText(MaxJobCalls, {Undefined})
  \/ GeneratedSend(MaxJobCalls, {<<"a1">>})
  \/ Enqueue(MaxJobCalls, QuietJobs)
  \/ SetMessageDelay({QuietDelay, DefaultMessageDelay})
  \/ QueueStep({"resolved"})

SpecJobs == Init /\ [][NextJobs]_vars

\* The typing specification: typing(ms) called at any moment, also while
\* the queue is draining a send.
MaxTypingCalls == 2

NextTyping ==
  \/ Typing(MaxTypingCalls, TypingTimes)
  \/ TypingResume
  \/ SendText(MaxTypingCalls, {Undefined})
  \/ QueueStep(Outcomes)

SpecTyping == Init /\ [][NextTyping]_vars

\* The specification of two contexts: the first one's client resolves its
\* calls, the second one's rejects them or leaves them unsettled.
MaxTwoCalls == 2
MaxOtherCalls == 2

NextTwo ==
  \/ SendText(MaxTwoCalls, {Undefined})
  \/ QueueStep({"resolved"})
  \/ OtherSendText(MaxOtherCalls)
  \/ OtherQueueStep({"rejected"})

SpecTwo == Init /\ [][NextTwo]_vars

-----------------------------------------------------------------------------
(* Properties of the queue specification, Spec *)

Pending(i) == calls[i].status = "pending"
\* the client calls the queue made for the job whose promise is d
SendCalls(d) == {i \in DOMAIN calls : calls[i].by = "queue" /\ calls[i].job = d}
HookCalls(by, d) == {i \in DOMAIN calls : calls[i].by = by /\ calls[i].job = d}
IsSettled(d) == deferreds[d].state # "pending"

\* C1: the client send operations are invoked in the order of the calls that
\* enqueued them, and none is invoked while an earlier one is unsettled.
C1_FifoNoOverlap ==
  \A i, j \in DOMAIN calls :
    (i < j /\ calls[i].by = "queue" /\ calls[j].by = "queue")
      => /\ calls[i].job < calls[j].job
         /\ ~Pending(i)

\* two sends invoked in call order although the first had the longer delay
C1_Witness ==
  \E i, j \in DOMAIN calls :
    /\ i < j /\ calls[i].by = "queue" /\ calls[j].by = "queue"
    /\ calls[i].delay > calls[j].delay
    /\ calls[i].op # calls[j].op

\* C2: for a job with indicators, typingOn is triggered, then the delay
\* elapses, then the send is invoked, then (the send settled) typingOff is
\* triggered: no send before its typingOn and its full delay, no typingOff
\* before its send has settled.
C2_IndicatorOrder ==
  /\ \A i \in DOMAIN calls :
       /\ calls[i].by = "queue" =>
            \E t \in HookCalls("beforeEach", calls[i].job) :
              t < i /\ calls[t].op = "typingOn"
       /\ calls[i].by = "after" =>
            /\ calls[i].op = "typingOff"
            /\ \E j \in SendCalls(calls[i].job) : j < i /\ ~Pending(j)
  /\ qstate \in {"action", "after"} => elapsed >= current[1].delay
  /\ \A d \in DOMAIN deferreds :
       (HasSession /\ IsSettled(d)) => HookCalls("after", d) # {}

\* a job with a positive delay went through typingOn, send and typingOff
C2_Witness ==
  \E i \in DOMAIN calls :
    calls[i].by = "after" /\ calls[i].delay > 0 /\ calls[i].op = "typingOff"

\* C3: a rejecting send rejects its own job's promise only; every promise
\* settles with its own send's result, and pending jobs keep being drained.
C3_RejectionIsolated ==
  /\ \A d \in DOMAIN deferreds :
       (HasSession /\ IsSettled(d)) =>
         \E i \in SendCalls(d) :
           /\ deferreds[d].state = calls[i].status
           /\ deferreds[d].value =
                IF calls[i].status = "rejected" THEN ErrorOf(i) ELSE ValueOf(i)
  /\ qstate = "idle" =>
       /\ queue = <<>>
       /\ \A d \in DOMAIN deferreds : IsSettled(d)

\* job 1 rejected, job 2 (enqueued before the rejection) resolved
C3_Witness ==
  /\ Len(deferreds) >= 2
  /\ deferreds[1].state = "rejected"
  /\ deferreds[2].state = "resolved"
  /\ deferreds[2].value.kind = "value"

\* C5: at most one call to the client is unsettled at any time, the hooks'
\* typingOn and typingOff calls included.
C5_OneUnsettledCall ==
  Cardinality({i \in DOMAIN calls : Pending(i)}) <= 1

\* C6: a job's after hook (typingOff) runs after its send has settled,
\* resolved or rejected, and before the next job's before hook (typingOn).
C6_AfterBeforeNext ==
  \A t \in DOMAIN calls :
    /\ calls[t].by = "beforeEach" =>
         \A d \in 1..(calls[t].job - 1) :
           \E f \in HookCalls("after", d) : f < t /\ calls[f].op = "typingOff"
    /\ calls[t].by = "after" =>
         \E i \in SendCalls(calls[t].job) : i < t /\ ~Pending(i)
    /\ (calls[t].by = "queue" /\ ~Pending(t) /\ qstate = "after")
         => HookCalls("after", calls[t].job) # {}

\* a rejected send was followed by typingOff and then the next job's typingOn
C6_Witness ==
  \E i, f, t \in DOMAIN calls :
    /\ i < f /\ f < t
    /\ calls[i].by = "queue" /\ calls[i].status = "rejected"
    /\ calls[f].by = "after" /\ calls[f].job = calls[i].job
    /\ calls[t].by = "beforeEach" /\ calls[t].job > calls[i].job

\* C7: a send-family call leads to exactly one client invocation, and its
\* promise settles exactly once, with that invocation's result and not
\* before it has settled.
C7_OneInvocationOneSettle ==
  \A d \in DOMAIN deferreds :
    HasSession =>
      /\ Cardinality(SendCalls(d)) <= 1
      /\ deferreds[d].settles <= 1
      /\ IsSettled(d) <=> deferreds[d].settles = 1
      /\ IsSettled(d) =>
           \E i \in SendCalls(d) :
             /\ ~Pending(i)
             /\ deferreds[d] =
                  [state |-> calls[i].status, settles |-> 1,
                   value |-> IF calls[i].status = "resolved"
                               THEN ValueOf(i) ELSE ErrorOf(i)]
      /\ (qstate = "idle" /\ queue = <<>>) =>
           (Cardinality(SendCalls(d)) = 1 /\ IsSettled(d))

\* every call made was a send-family call and each has its one invocation
\* and its settled promise, one of them rejected
C7_Witness ==
  /\ Len(deferreds) = MaxCalls
  /\ qstate = "idle"
  /\ \E d \in DOMAIN deferreds : deferreds[d].state = "rejected"
  /\ \E d \in DOMAIN deferreds : deferreds[d].state = "resolved"

\* C8: every enqueued job eventually has its client operation invoked and
\* its promise settled, the queue eventually stays idle, and a pending job
\* leaves the queue only by becoming the job being executed.
C8_EveryJobRuns ==
  /\ <>[](/\ qstate = "idle" /\ queue = <<>> /\ current = <<>>
          /\ \A d \in DOMAIN deferreds :
               HasSession => (SendCalls(d) # {} /\ IsSettled(d)))
  /\ [][\A k \in DOMAIN queue :
          \/ \E m \in DOMAIN queue' : queue'[m] = queue[k]
          \/ current' = <<queue[k]>>]_vars

\* every call's job has been invoked and settled and the queue is idle again
C8_Witness ==
  /\ HasSession
  /\ Len(deferreds) = MaxCalls
  /\ \A d \in DOMAIN deferreds : IsSettled(d) /\ SendCalls(d) # {}
  /\ qstate = "idle"

-----------------------------------------------------------------------------
(* Properties of the API specification, SpecApi *)

WithDelayMethods == {WithDelay(sendMethods[i]) : i \in DOMAIN sendMethods}

\* what a context without session shows for its k-th call
AllResolvedNoOp ==
  /\ calls = <<>>
  /\ queue = <<>> /\ current = <<>> /\ qstate = "idle"
  /\ Len(deferreds) = Len(api)
  /\ \A k \in DOMAIN api :
       /\ api[k].promise = k
       /\ deferreds[k] = [state |-> "resolved", value |-> NoValue, settles |-> 1]

\* C4, as claimed: on a context without session every call of a
\* session-scoped method resolves, issues exactly one warning, calls the
\* client zero times and enqueues nothing.
C4_ExactlyOneWarning ==
  ~HasSession => (AllResolvedNoOp /\ Len(warnings) = Len(api))

\* the warnings the k-th call issues on a context without session
SessionlessWarnings(k) ==
  IF api[k].method \in WithDelayMethods
    THEN <<DeprecatedWarning(api[k].method), NoSessionWarning(api[k].method)>>
    ELSE <<NoSessionWarning(api[k].method)>>

RECURSIVE WarningsUpTo(_)
WarningsUpTo(k) ==
  IF k = 0 THEN <<>> ELSE WarningsUpTo(k - 1) \o SessionlessWarnings(k)

\* C4, amended: on a context without session every call of a session-scoped
\* method resolves, issues exactly one session-missing warning (a generated
\* WithDelay variant issues its deprecation warning before it), calls the
\* client zero times and enqueues nothing.
C4_SessionlessNoOp ==
  ~HasSession => (AllResolvedNoOp /\ warnings = WarningsUpTo(Len(api)))

\* a generated WithDelay variant was called on a context without session
C4_Witness ==
  /\ ~HasSession
  /\ api # <<>>
  /\ api[Len(api)].method = WithDelay(chosen)
  /\ Len(warnings) > Len(api)

\* the job a step has added to the queue (it is executed at once when the
\* queue was idle)
Newest(q, cur) == IF q # <<>> THEN q[Len(q)] ELSE cur[1]

\* the step is a call of a public method for which pred holds
CallStep(pred(_)) ==
  /\ HasSession
  /\ Len(api') = Len(api) + 1
  /\ pred(api'[Len(api')].method)

\* the step adds exactly one job, with these fields, and returns its promise
AddsJob(method, args, delay) ==
  /\ Len(deferreds') = Len(deferreds) + 1
  /\ api'[Len(api')].promise = Len(deferreds')
  /\ Len(queue') + Len(current') = Len(queue) + Len(current) + 1
  /\ LET job == Newest(queue', current') IN
       /\ job.onSuccess.deferred = Len(deferreds')
       /\ job.onError.deferred = Len(deferreds')
       /\ job.method = method
       /\ job.args = args
       /\ job.delay = delay
       /\ job.showIndicators = TRUE

\* the public call that returned the promise d
CallOf(d) == api[CHOOSE k \in DOMAIN api : api[k].promise = d]

IsSendText(m) == m = "sendText"
IsGenerated(m) == m \in Range(sendMethods)

SendTextArgs(c) ==
  IF c.args[2] = Undefined
    THEN <<UserId, c.args[1]>>
    ELSE <<UserId, c.args[1], c.args[2]>>

\* C9: sendText(text, options) enqueues exactly one job, which invokes the
\* client's sendText with (userId, text), or (userId, text, options) when
\* options is given, with indicators and with the default delay of the
\* moment of the call: 1000 until a setMessageDelay changes it.
C9_SendTextJob ==
  /\ messageDelay = DefaultMessageDelay
  /\ [][messageDelay' # messageDelay =>
          UNCHANGED <<queue, current, calls, deferreds, warnings, api>>]_vars
  /\ [][CallStep(IsSendText) =>
          AddsJob("sendText", SendTextArgs(api'[Len(api')]), messageDelay)]_vars
  /\ [](\A i \in DOMAIN calls :
          (calls[i].by = "queue" /\ CallOf(calls[i].job).method = "sendText")
            => /\ calls[i].op = "sendText"
               /\ calls[i].args = SendTextArgs(CallOf(calls[i].job)))

\* sendText with options was invoked on the client after the default delay
\* had been changed
C9_Witness ==
  \E i \in DOMAIN calls :
    /\ calls[i].by = "queue"
    /\ CallOf(calls[i].job).method = "sendText"
    /\ Len(calls[i].args) = 3
    /\ calls[i].delay # DefaultMessageDelay

\* C10: a generated send method enqueues exactly one job, which invokes the
\* client operation of the same name with (userId, ...args), with
\* indicators and with the default delay of the moment of the call.
C10_GeneratedSendJob ==
  /\ [][CallStep(IsGenerated) =>
          AddsJob(api'[Len(api')].method,
                  <<UserId>> \o api'[Len(api')].args, messageDelay)]_vars
  /\ [](\A i \in DOMAIN calls :
          (calls[i].by = "queue" /\ IsGenerated(CallOf(calls[i].job).method))
            => /\ calls[i].op = CallOf(calls[i].job).method
               /\ calls[i].args = <<UserId>> \o CallOf(calls[i].job).args)

\* a generated method other than the list's last one was invoked on the
\* client with two arguments after the user id
C10_Witness ==
  \E i \in DOMAIN calls :
    /\ calls[i].by = "queue"
    /\ calls[i].op = sendMethods[8]
    /\ CallOf(calls[i].job).method = calls[i].op
    /\ Len(calls[i].args) = 3

\* the method a generated WithDelay variant is the variant of
BaseOf(m) == CHOOSE b \in Range(sendMethods) : WithDelay(b) = m

IsSendTextWithDelay(m) == m = "sendTextWithDelay"
IsGeneratedWithDelay(m) == m \in WithDelayMethods

\* C11: a WithDelay variant called with (delay, ...rest) enqueues the job its
\* method without WithDelay enqueues for ...rest, except that the job's
\* delay is the delay argument; the delay is not passed to the client and
\* the default delay is left as it is.
C11_WithDelayJob ==
  /\ [][CallStep(IsSendTextWithDelay) =>
          /\ AddsJob("sendText", <<UserId, api'[Len(api')].args[1]>>,
                     api'[Len(api')].delay)
          /\ messageDelay' = messageDelay]_vars
  /\ [][CallStep(IsGeneratedWithDelay) =>
          /\ AddsJob(BaseOf(api'[Len(api')].method),
                     <<UserId>> \o api'[Len(api')].args, api'[Len(api')].delay)
          /\ messageDelay' = messageDelay]_vars
  /\ [](\A i \in DOMAIN calls :
          /\ (calls[i].by = "queue"
                /\ IsSendTextWithDelay(CallOf(calls[i].job).method))
               => /\ calls[i].op = "sendText"
                  /\ calls[i].args = <<UserId>> \o CallOf(calls[i].job).args
                  /\ calls[i].delay = CallOf(calls[i].job).delay
          /\ (calls[i].by = "queue"
                /\ IsGeneratedWithDelay(CallOf(calls[i].job).method))
               => /\ calls[i].op = BaseOf(CallOf(calls[i].job).method)
                  /\ calls[i].args = <<UserId>> \o CallOf(calls[i].job).args
                  /\ calls[i].delay = CallOf(calls[i].job).delay)

\* a generated WithDelay variant's job was invoked on the client with its
\* two other arguments, after a delay that is not the default
C11_Witness ==
  \E i \in DOMAIN calls :
    /\ calls[i].by = "queue"
    /\ IsGeneratedWithDelay(CallOf(calls[i].job).method)
    /\ Len(calls[i].args) = 3
    /\ calls[i].delay # messageDelay

Deprecations == {i \in DOMAIN warnings : warnings[i].kind = "deprecated"}

\* C12: every call of a WithDelay variant, sendTextWithDelay included, emits
\* exactly one deprecation warning, so there are as many deprecation
\* warnings as there were calls of WithDelay variants.
C12_OneDeprecationPerCall ==
  Cardinality(Deprecations) =
    Cardinality({k \in DOMAIN api :
                   \/ IsSendTextWithDelay(api[k].method)
                   \/ IsGeneratedWithDelay(api[k].method)})

\* the two states of the queue
Idle == qstate = "idle" /\ queue = <<>> /\ current = <<>>
Draining == qstate \in {"before", "action", "after"} /\ Len(current) = 1

\* a step in which a method of the context that enqueues a job was called
EnqueueStep == HasSession /\ Len(api') = Len(api) + 1

\* C14: the queue is always either Idle (no job pending or executing) or
\* Draining (exactly one job executing); it goes from Idle to Draining only
\* on an enqueue, from Draining to Idle only when a job completes and none
\* is left; an enqueue while Draining only appends the job.
C14_IdleOrDraining ==
  /\ [](Idle \/ Draining)
  /\ [](Cardinality({i \in DOMAIN calls : calls[i].by = "queue"
                                          /\ calls[i].status = "pending"}) <= 1)
  /\ [][(Idle /\ ~Idle') => (EnqueueStep /\ Draining')]_vars
  /\ [][(Idle /\ EnqueueStep) =>
          (Draining' /\ queue' = <<>>
             /\ current'[1].onSuccess.deferred = Len(deferreds'))]_vars
  /\ [][(Draining /\ Idle') =>
          /\ qstate = "after" /\ queue = <<>>
          /\ LET d == current[1].onSuccess.deferred IN
               /\ deferreds[d].state = "pending"
               /\ deferreds'[d].state # "pending"]_vars
  /\ [][(Draining /\ current' # current) =>
          /\ qstate = "after"
          /\ IF queue = <<>> THEN Idle'
                             ELSE Draining' /\ current' = <<Head(queue)>>
                                  /\ queue' = Tail(queue)]_vars
  /\ [][(Draining /\ EnqueueStep) =>
          /\ Len(queue') = Len(queue) + 1
          /\ SubSeq(queue', 1, Len(queue)) = queue
          /\ queue'[Len(queue')].onSuccess.deferred = Len(deferreds')
          /\ current' = current /\ qstate' = qstate /\ inflight' = inflight
          /\ timer' = timer /\ calls' = calls]_vars

\* a job was enqueued while another one was in flight
C14_Witness ==
  /\ qstate = "action"
  /\ calls[inflight].status = "pending"
  /\ Len(queue) = 1
  /\ queue[1].onSuccess.deferred = 2

\* the promises of the jobs one of whose indicator calls was rejected
IndicatorFailed ==
  {d \in DOMAIN deferreds :
     \E i \in HookCalls("beforeEach", d) \cup HookCalls("after", d) :
       calls[i].status = "rejected"}

\* C18: a rejected typingOn or typingOff of the hooks fails no hook: the send
\* is invoked as soon as the delay is over, the job's promise settles once,
\* with the send's own result, and the queue goes on to the following jobs.
C18_IndicatorFailureIgnored ==
  /\ (qstate = "before" /\ timer = 0) => ENABLED QInvoke
  /\ qstate = "after" => ENABLED QRoute
  /\ qstate = "idle" => queue = <<>>
  /\ \A d \in IndicatorFailed :
       /\ (qstate \in {"action", "after"} /\ current[1].onSuccess.deferred = d)
            => (SendCalls(d) # {} /\ elapsed >= current[1].delay)
       /\ IsSettled(d) =>
            /\ deferreds[d].settles = 1
            /\ \E i \in SendCalls(d) :
                 /\ deferreds[d].state = calls[i].status
                 /\ deferreds[d].value =
                      IF calls[i].status = "rejected" THEN ErrorOf(i)
                                                      ELSE ValueOf(i)

\* both indicator calls of the first job were rejected, its send and its
\* promise resolved, and the second job's send has been invoked
C18_Witness ==
  /\ \E i \in HookCalls("beforeEach", 1) : calls[i].status = "rejected"
  /\ \E i \in HookCalls("after", 1) : calls[i].status = "rejected"
  /\ deferreds[1].state = "resolved"
  /\ Len(deferreds) = 2
  /\ SendCalls(2) # {}

\* the promises of the jobs enqueued without indicators
QuietPromises ==
  {api[k].promise : k \in {k \in DOMAIN api : api[k].method = "_enqueue"}}

\* the step invokes the send of the current job
InvokeStep ==
  /\ Len(calls') = Len(calls) + 1
  /\ calls'[Len(calls')].by = "queue"

\* C15: for a job with showIndicators = false the hooks call neither typingOn
\* nor typingOff, and the job's delay has elapsed when its send is invoked.
C15_QuietJobStillDelayed ==
  /\ [](\A d \in QuietPromises :
          /\ HookCalls("beforeEach", d) = {}
          /\ HookCalls("after", d) = {}
          /\ \A i \in SendCalls(d) : calls[i].delay = QuietDelay)
  /\ []((current # <<>> /\ ~current[1].showIndicators) =>
          /\ current[1].onSuccess.deferred \in QuietPromises
          /\ current[1].delay = QuietDelay
          /\ qstate = "before" =>
               (SendCalls(current[1].onSuccess.deferred) = {}
                  /\ timer + elapsed = QuietDelay)
          /\ qstate \in {"action", "after"} => elapsed = QuietDelay)
  /\ [][(InvokeStep /\ ~current[1].showIndicators) =>
          (timer = 0 /\ elapsed = QuietDelay)]_vars

\* a job without indicators has been invoked after the job before it,
\* which showed them, and has settled; the client saw no call for it but
\* the send
C15_Witness ==
  /\ Len(api) = 2
  /\ api[1].method = "sendText"
  /\ api[2].method = "_enqueue"
  /\ deferreds[2].state = "resolved"
  /\ Len(calls) = 4

\* the jobs the queue holds, pending or executing
Held(q, cur) == Range(q) \cup Range(cur)

\* C17: a job's delay is the default delay at the moment of the call that
\* enqueued it; no later step, setMessageDelay included, changes the job or
\* the running sleep, and the job's send is invoked after that delay.
C17_DelayFixedAtCall ==
  /\ [][(CallStep(IsSendText) \/ CallStep(IsGenerated)) =>
          /\ Len(queue') + Len(current') = Len(queue) + Len(current) + 1
          /\ Newest(queue', current').delay = messageDelay
          /\ messageDelay' = messageDelay]_vars
  /\ [][\A job \in Held(queue, current) :
          \A job2 \in Held(queue', current') :
            job2.onSuccess.deferred = job.onSuccess.deferred => job2 = job]_vars
  /\ [][messageDelay' # messageDelay =>
          /\ queue' = queue /\ current' = current /\ qstate' = qstate
          /\ timer' = timer /\ elapsed' = elapsed /\ calls' = calls]_vars
  /\ [][InvokeStep =>
          /\ timer = 0
          /\ elapsed = current[1].delay
          /\ calls'[Len(calls')].delay = current[1].delay]_vars
  /\ [](qstate = "before" => timer + elapsed = current[1].delay)

\* the first job's send was invoked after the delay of its call, which is
\* no longer the default; the job enqueued since has the new default
C17_Witness ==
  /\ qstate = "action"
  /\ CallOf(current[1].onSuccess.deferred).method = "sendText"
  /\ current[1].delay = DefaultMessageDelay
  /\ elapsed = DefaultMessageDelay
  /\ messageDelay = QuietDelay
  /\ Len(queue) = 1
  /\ CallOf(queue[1].onSuccess.deferred).method = chosen
  /\ queue[1].delay = QuietDelay

\* the client calls of the k-th typing(ms) invocation
TypingCalls(k, op) ==
  {i \in DOMAIN calls :
     calls[i].by = "typing" /\ calls[i].job = k /\ calls[i].op = op}

\* the invocations of typing(ms) that have returned or thrown
TypingEnded == {k \in DOMAIN typings : typings[k].pc \in {"resolved", "rejected"}}

\* C13, as claimed: typing(ms) waits for its typingOn to settle, suspends,
\* then triggers typingOff: no typing(ms) ends without its typingOff call.
C13_TypingOffAfterSettle ==
  HasSession => \A k \in TypingEnded : TypingCalls(k, "typingOff") # {}

\* typing(ms) is called in this step
TypingCallStep == Len(typings') = Len(typings) + 1

\* the order of the k-th typing(ms): typingOn, resolved, ms asleep, typingOff
TypingInOrder(k) ==
  LET t == typings[k]
      on == TypingCalls(k, "typingOn")
      off == TypingCalls(k, "typingOff")
  IN  /\ Cardinality(on) = 1
      /\ Cardinality(off) <= 1
      /\ t.pc = "typingOn" => off = {}
      /\ t.pc = "sleep" =>
           /\ off = {}
           /\ \A i \in on : calls[i].status = "resolved"
           /\ t.timer + t.elapsed = t.ms
      /\ off # {} =>
           /\ t.pc \in {"typingOff", "resolved", "rejected"}
           /\ t.elapsed = t.ms
           /\ \A i \in on : calls[i].status = "resolved"
           /\ \A i \in on : \A j \in off : i < j
      /\ (\E i \in on : calls[i].status = "rejected") => off = {}
      /\ (k \in TypingEnded /\ off = {}) =>
           (t.pc = "rejected" /\ t.elapsed = 0
              /\ \A i \in on : calls[i].status = "rejected")

\* C13, amended: typing(ms) triggers typingOn at call time, whatever the
\* queue is doing, waits for it to resolve, suspends for ms, then triggers
\* typingOff; if typingOn rejects it ends without typingOff. It adds no job,
\* and the jobs are still invoked in order, each after its own delay.
C13_TypingOutsideQueue ==
  /\ [][(TypingCallStep /\ HasSession) =>
          /\ calls' = Append(calls,
                 [op |-> "typingOn", args |-> <<UserId>>, status |-> "pending",
                  by |-> "typing", job |-> Len(typings'),
                  delay |-> typings'[Len(typings')].ms])
          /\ UNCHANGED <<queue, current, qstate, inflight, timer, elapsed,
                         deferreds, messageDelay>>]_vars
  /\ [][typings' # typings =>
          /\ UNCHANGED <<queue, current, qstate, inflight, messageDelay>>
          /\ HasSession => deferreds' = deferreds]_vars
  /\ [](HasSession => \A k \in DOMAIN typings : TypingInOrder(k))
  /\ [](\A k \in DOMAIN typings :
          (typings[k].pc = "sleep" /\ typings[k].timer = 0)
            => ENABLED TypingResume)
  /\ [](qstate = "before" => timer + elapsed = current[1].delay)
  /\ [][InvokeStep => (timer = 0 /\ elapsed = current[1].delay)]_vars
  /\ [](\A i, j \in DOMAIN calls :
          (calls[i].by = "queue" /\ calls[j].by = "queue" /\ i < j)
            => (calls[i].job < calls[j].job /\ ~Pending(i)))

\* typing(300), called while the first job was in its delay, has triggered
\* its typingOff; 700 ms of the job's delay are left
C13_Witness ==
  /\ qstate = "before"
  /\ timer = DefaultMessageDelay - 300
  /\ Len(typings) = 1
  /\ typings[1].pc = "typingOff"
  /\ \E i \in HookCalls("beforeEach", 1) :
       \A j \in TypingCalls(1, "typingOn") : i < j

\* the sends of a context are invoked in job order, one at a time
FifoNoOverlap(cs) ==
  \A i, j \in DOMAIN cs :
    (cs[i].by = "queue" /\ cs[j].by = "queue" /\ i < j)
      => (cs[i].job < cs[j].job /\ cs[i].status # "pending")

\* what each context holds, the running sleeps apart (time is common)
FirstContext ==
  <<messageDelay, queue, qstate, current, inflight, calls, deferreds,
    warnings, api>>
SecondContext == [other EXCEPT !.timer = 0, !.elapsed = 0]

\* C16: each of two contexts has its own queue: the sends of each are in
\* FIFO order and one at a time, a step of one context changes nothing of
\* the other, and the first context's queue goes on whatever the second
\* one's calls do (here they are rejected or never settle): its promises
\* resolve, none is rejected by the second context's failures.
C16_IndependentContexts ==
  /\ [](FifoNoOverlap(calls) /\ FifoNoOverlap(other.calls))
  /\ [][SecondContext' # SecondContext =>
          UNCHANGED <<FirstContext, timer, elapsed>>]_vars
  /\ [][FirstContext' # FirstContext => other' = other]_vars
  /\ []((qstate = "before" /\ timer = 0) => ENABLED QInvoke)
  /\ []((qstate = "action" /\ ~Pending(inflight)) => ENABLED QAfter)
  /\ [](qstate = "after" => ENABLED QRoute)
  /\ [](qstate = "before" => timer + elapsed = current[1].delay)
  /\ [](other.qstate = "before" =>
          other.timer + other.elapsed = other.current[1].delay)
  /\ [](HasSession =>
          /\ \A d \in DOMAIN deferreds :
               IsSettled(d) => (deferreds[d].state = "resolved"
                                 /\ deferreds[d].value \in
                                      {ValueOf(i) : i \in SendCalls(d)})
          /\ \A d \in DOMAIN other.deferreds :
               other.deferreds[d].state \in {"pending", "rejected"})

\* the second job of the first context is in flight, its first one has
\* resolved, while the second context, whose first job was rejected, is in
\* the delay of its second one
C16_Witness ==
  /\ qstate = "action"
  /\ current[1].onSuccess.deferred = 2
  /\ Pending(inflight)
  /\ deferreds[1].state = "resolved"
  /\ other.qstate = "before"
  /\ other.timer > 0
  /\ other.deferreds[1].state = "rejected"

=============================================================================
